---------------------------- MODULE Spec2Model ----------------------------
(***************************************************************************)
(* State machine of the Chat component                                     *)
(* (frontend/src/components/Chat.js).                                      *)
(*                                                                         *)
(* The React state hooks are the variables, every event handler and every  *)
(* continuation of an await is one action.  A handler runs to its first    *)
(* await (or to its end) in one step, React applying the batched state     *)
(* updates before the next event is dispatched; the part of an async       *)
(* handler behind an await is the step taken when the HTTP response        *)
(* arrives.  The HTTP backend, the browser's speech recognizer and speech  *)
(* synthesizer, the timer queue and the auth context are the environment.  *)
(*                                                                         *)
(* A handler is taken to be callable in every state: the disabled flags of  *)
(* the render only take calls away, so every state the buttons can reach   *)
(* is reached here, and the guards inside the handlers are exercised.      *)
(*                                                                         *)
(* A text is the sequence of its UTF-16 code units, each a one-character   *)
(* string (a code unit above 127 is written "U+XXXX"), so that Len is the  *)
(* JavaScript .length and trim() is computed, not assumed.                 *)
(*                                                                         *)
(* The handlers fall into three groups that meet only in messages (appends *)
(* and the reset of the welcome effect) and inputMessage: the conversation *)
(* with its speech output (NextChat), the voice input (NextVoice) and the  *)
(* file upload (NextFiles).  Next is their union; each property is checked *)
(* under the specification of the group whose handlers it is about.        *)
(***************************************************************************)
EXTENDS Integers, Sequences, FiniteSets

VARIABLES
    messages,        \* useState([]): the conversation
    inputMessage,    \* useState(''): the textarea's text
    isLoading,       \* useState(false)
    isTyping,        \* useState(false)
    showSuggestions, \* useState(true)
    isListening,     \* useState(false)
    isSpeaking,      \* useState(false)
    recognition,     \* TRUE when the browser gave a SpeechRecognition instance
    synthesis,       \* TRUE when the browser has speechSynthesis
    uploadedFiles,   \* useState([])
    isDragging,      \* useState(false)
    isUploading,     \* useState(false)
    user,            \* useAuth().user, here its username
    chatReqs,        \* POST /chat requests in flight
    uploadReqs,      \* POST /upload requests in flight
    filesReqs,       \* GET /files requests in flight
    speakTimers,     \* pending setTimeout(() => speakResponse(..), 500)
    recSession,      \* the recognizer: "idle", "active" or "ending"
    utterance,       \* the synthesizer: "none", "queued" or "speaking"
    nSends,          \* number of sendMessage calls that passed the guard
    nUploads,        \* number of handleFileUpload calls that passed the guard
    event            \* the handler or callback that ran last, with its argument

vars ==
    << messages, inputMessage, isLoading, isTyping, showSuggestions,
       isListening, isSpeaking, recognition, synthesis, uploadedFiles,
       isDragging, isUploading, user, chatReqs, uploadReqs, filesReqs,
       speakTimers, recSession, utterance, nSends, nUploads,
       event >>

---------------------------------------------------------------------------
(* Bounds of the model. *)

MaxSends == 2

MaxUploads == 1

---------------------------------------------------------------------------
(* Program constants and literals. *)

AutoSpeakLimit == 200

suggestions ==
  <<
    <<
      "W","h","a","t"," ","c","a","n"," ","y","o","u"," ","d","o","?" >>,
    <<
      "W","h","a","t","'","s"," ","2","5"," ","U+00D7"," ","1","7","?" >>,
    <<
      "W","h","a","t"," ","t","i","m","e"," ","i","s"," ","i","t","?" >>,
    <<
      "T","e","l","l"," ","m","e"," ","a"," ","j","o","k","e" >>,
    <<
      "H","e","l","p"," ","m","e"," ","w","i","t","h"," ","m","a","t","h" >>,
    <<
      "S","e","a","r","c","h"," ","f","o","r"," ","l","a","t","e","s","t",
      " ","n","e","w","s" >>
  >>

WelcomeHead ==
  <<
    "H","e","y"," " >>

WelcomeTail ==
  <<
    "!"," ","U+D83D","U+DC4B"," ","I","'","m"," ","y","o","u","r"," ","A",
    "I"," ","a","s","s","i","s","t","a","n","t","."," ","I"," ","c","a","n",
    " ","h","e","l","p"," ","w","i","t","h"," ","c","a","l","c","u","l","a",
    "t","i","o","n","s",","," ","q","u","e","s","t","i","o","n","s",","," ",
    "w","e","b"," ","s","e","a","r","c","h","e","s",","," ","a","n","d"," ",
    "I","'","l","l"," ","r","e","m","e","m","b","e","r"," ","o","u","r"," ",
    "c","o","n","v","e","r","s","a","t","i","o","n","s","."," ","Y","o","u",
    " ","c","a","n"," ","t","y","p","e"," ","o","r"," ","u","s","e"," ","v",
    "o","i","c","e","!"," ","W","h","a","t","'","s"," ","o","n"," ","y","o",
    "u","r"," ","m","i","n","d","?" >>

UploadSuffix ==
  <<
    "."," ","K","y","a"," ","p","u","c","h","n","a"," ","h","a","i","?" >>

UploadFailedText ==
  <<
    "F","i","l","e"," ","u","p","l","o","a","d"," ","f","a","i","l","e","d",
    "."," ","P","l","e","a","s","e"," ","t","r","y"," ","a","g","a","i","n",
    "." >>

ApologyText ==
  <<
    "S","o","r","r","y",","," ","s","o","m","e","t","h","i","n","g"," ","w",
    "e","n","t"," ","w","r","o","n","g","."," ","P","l","e","a","s","e"," ",
    "t","r","y"," ","a","g","a","i","n","!" >>

---------------------------------------------------------------------------
(* Values of the environment. *)

\* null / undefined where a text or a list is expected.
Null == << "null" >>

\* A message without a duration field.
NoDuration == "undefined"

\* What the user may have in the textarea (onChange).
Texts == { << >>, << " " >>, << " ", "h", "i", " " >> }

\* What the recognizer may hear.
Transcripts == { << "h", "i" >> }

\* The effect on [user] runs when the auth context hands over another user
\* object, whether or not the username differs: one username is enough.
Usernames == { << "a", "n", "n" >> }

\* The argument of handleFileUpload: a FileList, possibly empty or missing.
FileLists == { Null, << >>, << "a.pdf" >> }

\* response.data.files of GET /files: a list, or missing.
FilesData == { Null, << >>, << "a.pdf" >> }

\* response.data.message of POST /upload.
UploadMessages == { << "O", "K" >> }

Repeat(c, n) == [i \in 1..n |-> c]

\* response.data of POST /chat: a text and an optional duration.
Replies ==
    { [content |-> Repeat("a", AutoSpeakLimit - 1), duration |-> NoDuration],
      [content |-> Repeat("b", AutoSpeakLimit), duration |-> "1.5"] }

Keys == { "Enter", "a" }

\* The suggestion chips that get clicked (indexes into suggestions).
ClickedSuggestions == { 1 }

---------------------------------------------------------------------------
(* Pure helpers. *)

Last(s) == s[Len(s)]

IsWhitespace(c) == c \in { " ", "\t", "\n", "\r" }

RECURSIVE TrimStart(_)
TrimStart(s) ==
    IF s # << >> /\ IsWhitespace(Head(s)) THEN TrimStart(Tail(s)) ELSE s

RECURSIVE TrimEnd(_)
TrimEnd(s) ==
    IF s # << >> /\ IsWhitespace(Last(s))
    THEN TrimEnd(SubSeq(s, 1, Len(s) - 1))
    ELSE s

\* String.prototype.trim
Trim(s) == TrimEnd(TrimStart(s))

\* JavaScript truthiness of a text or list argument: null, undefined and ''
\* are falsy.
Truthy(x) == x # Null /\ x # << >>

\* Variant: the input is not trimmed.
MessageOfUntrimmed(messageText) ==
    IF Truthy(messageText) THEN messageText ELSE inputMessage

\* Variant: the given text is ignored.
MessageOfInputOnly(messageText) == Trim(inputMessage)

\* const message = messageText || inputMessage.trim();
MessageOf(messageText) ==
    IF Truthy(messageText) THEN messageText ELSE Trim(inputMessage)

\* Variant: isLoading is not looked at.
AcceptsSendNoLoadingCheck(message) == message # << >>

\* if (!message || isLoading) return;   (the negation: the call goes on)
AcceptsSend(message) == message # << >> /\ ~isLoading

\* Variant: <= for <.
ShouldAutoSpeakInclusive(content) == Len(content) <= AutoSpeakLimit

\* if (response.data.content.length < 200)
ShouldAutoSpeak(content) == Len(content) < AutoSpeakLimit

\* Variant: an empty list is let through.
AcceptsFilesNullOnly(files) == files # Null

\* if (!files || files.length === 0) return;   (the negation)
AcceptsFiles(files) == files # Null /\ Len(files) # 0

\* response.data.files || []
FilesOrEmpty(files) == IF files = Null THEN << >> ELSE files

Message(role, content, error, duration, send) ==
    [role |-> role, content |-> content, error |-> error,
     duration |-> duration, send |-> send]

\* The welcome message of the effect on [user].
WelcomeMessage(username) ==
    Message("assistant", WelcomeHead \o username \o WelcomeTail, FALSE,
            NoDuration, 0)

Event(op, arg) == [op |-> op, arg |-> arg]

---------------------------------------------------------------------------
(* The state after mount: the three mount effects have run. *)

Init ==
    /\ user \in Usernames
    /\ messages = << WelcomeMessage(user) >>
    /\ inputMessage = << >>
    /\ isLoading = FALSE
    /\ isTyping = FALSE
    /\ showSuggestions = TRUE
    /\ isListening = FALSE
    /\ isSpeaking = FALSE
    /\ recognition \in BOOLEAN
    /\ synthesis \in BOOLEAN
    /\ uploadedFiles = << >>
    /\ isDragging = FALSE
    /\ isUploading = FALSE
    /\ chatReqs = {}
    /\ uploadReqs = {}
    /\ filesReqs = { [upload |-> 0] }
    /\ speakTimers = {}
    /\ recSession = "idle"
    /\ utterance = "none"
    /\ nSends = 0
    /\ nUploads = 0
    /\ event = Event("mount", << >>)

chatState ==
    << messages, inputMessage, isLoading, isTyping, showSuggestions,
       chatReqs, nSends >>

voiceState == << isListening, recognition, recSession >>

speechState == << isSpeaking, synthesis, utterance, speakTimers >>

fileState ==
    << uploadedFiles, isDragging, isUploading, uploadReqs, filesReqs,
       nUploads >>

---------------------------------------------------------------------------
(* Text input and sending a message. *)

\* onChange={(e) => setInputMessage(e.target.value)}
SetInputMessage(text) ==
    /\ inputMessage' = text
    /\ event' = Event("setInputMessage", text)
    /\ UNCHANGED << messages, isLoading, isTyping, showSuggestions, chatReqs,
                    nSends, user, voiceState, speechState, fileState >>

\* sendMessage up to its await: the guard, the user message, the flags and
\* the POST /chat.  The request remembers the isSpeaking of the render whose
\* speakResponse the continuation will call.
sendMessage(messageText) ==
    LET message == MessageOf(messageText) IN
    /\ event' = Event("sendMessage", messageText)
    /\ UNCHANGED << user, voiceState, speechState, fileState >>
    /\ IF ~AcceptsSend(message)
       THEN UNCHANGED chatState
       ELSE /\ nSends < MaxSends
            /\ nSends' = nSends + 1
            /\ messages' = Append(messages,
                   Message("user", message, FALSE, NoDuration, nSends + 1))
            /\ inputMessage' = << >>
            /\ isLoading' = TRUE
            /\ isTyping' = TRUE
            /\ showSuggestions' = FALSE
            /\ chatReqs' = chatReqs \cup
                   { [send |-> nSends + 1, message |-> message,
                      isSpeaking |-> isSpeaking] }

\* The send button: onClick={() => sendMessage()}
ClickSend == sendMessage(Null)

\* A suggestion chip: onClick={() => sendMessage(suggestion)}
ClickSuggestion(i) == sendMessage(suggestions[i])

handleKeyDown(key, shiftKey) ==
    IF key = "Enter" /\ ~shiftKey
    THEN sendMessage(Null)
    ELSE /\ event' = Event("handleKeyDown", << key >>)
         /\ UNCHANGED << chatState, user, voiceState, speechState,
                         fileState >>

\* Variant: the flags are not reset.
FinallyKeepsLoading ==
    /\ isLoading' = isLoading
    /\ isTyping' = isTyping

\* The finally block of sendMessage.
Finally ==
    /\ isLoading' = FALSE
    /\ isTyping' = FALSE

\* POST /chat answered: the try block behind the await, then finally.
ChatSuccess(r, reply) ==
    /\ r \in chatReqs
    /\ chatReqs' = chatReqs \ { r }
    /\ messages' = Append(messages,
           Message("assistant", reply.content, FALSE, reply.duration, r.send))
    /\ speakTimers' =
           IF ShouldAutoSpeak(reply.content)
           THEN speakTimers \cup
                    { [send |-> r.send, text |-> reply.content,
                       isSpeaking |-> r.isSpeaking] }
           ELSE speakTimers
    /\ Finally
    /\ event' = Event("chatSuccess", << r.send >>)
    /\ UNCHANGED << inputMessage, showSuggestions, nSends, user, voiceState,
                    isSpeaking, synthesis, utterance, fileState >>

\* POST /chat failed: the catch block, then finally.
ChatFail(r) ==
    /\ r \in chatReqs
    /\ chatReqs' = chatReqs \ { r }
    /\ messages' = Append(messages,
           Message("assistant", ApologyText, TRUE, NoDuration, r.send))
    /\ Finally
    /\ event' = Event("chatFail", << r.send >>)
    /\ UNCHANGED << inputMessage, showSuggestions, nSends, user, voiceState,
                    speechState, fileState >>

\* useEffect(() => setMessages([welcome]), [user]): the auth context hands
\* the component another user object.
UserChanged(u) ==
    /\ user' = u
    /\ messages' = << WelcomeMessage(u) >>
    /\ event' = Event("userChanged", u)
    /\ UNCHANGED << inputMessage, isLoading, isTyping, showSuggestions,
                    chatReqs, nSends, voiceState, speechState, fileState >>

---------------------------------------------------------------------------
(* Speech synthesis. *)

\* speakResponse as seen from a render whose isSpeaking was `speaking`.
\* synthesis.cancel() drops the utterance in progress, whose onend/onerror
\* resets isSpeaking, and synthesis.speak queues the new one.
speakResponse(speaking) ==
    IF synthesis /\ ~speaking
    THEN /\ utterance' = "queued"
         /\ isSpeaking' = FALSE
    ELSE UNCHANGED << utterance, isSpeaking >>

\* The Speak button of an assistant message.
ClickSpeak ==
    /\ \E i \in DOMAIN messages :
           messages[i].role = "assistant" /\ ~messages[i].error
    /\ speakResponse(isSpeaking)
    /\ event' = Event("speakResponse", << >>)
    /\ UNCHANGED << chatState, user, voiceState, synthesis, speakTimers,
                    fileState >>

\* The 500 ms timer of an auto-spoken reply fires.
SpeakTimerFires(t) ==
    /\ t \in speakTimers
    /\ speakTimers' = speakTimers \ { t }
    /\ speakResponse(t.isSpeaking)
    /\ event' = Event("speakTimer", << t.send >>)
    /\ UNCHANGED << chatState, user, voiceState, synthesis, fileState >>

stopSpeaking ==
    /\ IF synthesis
       THEN utterance' = "none" /\ isSpeaking' = FALSE
       ELSE UNCHANGED << utterance, isSpeaking >>
    /\ event' = Event("stopSpeaking", << >>)
    /\ UNCHANGED << chatState, user, voiceState, synthesis, speakTimers,
                    fileState >>

\* utterance.onstart
UtteranceStart ==
    /\ utterance = "queued"
    /\ utterance' = "speaking"
    /\ isSpeaking' = TRUE
    /\ event' = Event("utterance.onstart", << >>)
    /\ UNCHANGED << chatState, user, voiceState, synthesis, speakTimers,
                    fileState >>

\* utterance.onend, utterance.onerror
UtteranceEnd ==
    /\ utterance = "speaking"
    /\ utterance' = "none"
    /\ isSpeaking' = FALSE
    /\ event' = Event("utterance.onend", << >>)
    /\ UNCHANGED << chatState, user, voiceState, synthesis, speakTimers,
                    fileState >>

---------------------------------------------------------------------------
(* Voice input.  recognition.start() on a recognizer whose session has not  *)
(* ended throws InvalidStateError and leaves that session running.         *)

startListening ==
    /\ IF recognition /\ ~isListening
       THEN /\ isListening' = TRUE
            /\ recSession' = IF recSession = "idle" THEN "active"
                             ELSE recSession
            /\ event' = Event("recognition.start",
                   IF recSession = "idle" THEN << "started" >>
                   ELSE << "InvalidStateError" >>)
       ELSE /\ UNCHANGED << isListening, recSession >>
            /\ event' = Event("startListening", << >>)
    /\ UNCHANGED << chatState, user, recognition, speechState, fileState >>

\* recognition.stop() ends the capture; the recognizer may still deliver a
\* result before its onend.
stopListening ==
    /\ IF recognition /\ isListening
       THEN /\ isListening' = FALSE
            /\ event' = Event("recognition.stop", << >>)
       ELSE /\ UNCHANGED isListening
            /\ event' = Event("stopListening", << >>)
    /\ UNCHANGED << chatState, user, recognition, recSession, speechState,
                    fileState >>

\* recognitionInstance.onresult (continuous = false: one result a session)
OnResult(transcript) ==
    /\ recSession = "active"
    /\ recSession' = "ending"
    /\ inputMessage' = transcript
    /\ isListening' = FALSE
    /\ event' = Event("recognition.onresult", transcript)
    /\ UNCHANGED << messages, isLoading, isTyping, showSuggestions, chatReqs,
                    nSends, user, recognition, speechState, fileState >>

\* recognitionInstance.onerror
OnError ==
    /\ recSession = "active"
    /\ recSession' = "ending"
    /\ isListening' = FALSE
    /\ event' = Event("recognition.onerror", << >>)
    /\ UNCHANGED << chatState, user, recognition, speechState, fileState >>

\* recognitionInstance.onend
OnEnd ==
    /\ recSession # "idle"
    /\ recSession' = "idle"
    /\ isListening' = FALSE
    /\ event' = Event("recognition.onend", << >>)
    /\ UNCHANGED << chatState, user, recognition, speechState, fileState >>

---------------------------------------------------------------------------
(* File upload. *)

handleDragOver ==
    /\ isDragging' = TRUE
    /\ event' = Event("handleDragOver", << >>)
    /\ UNCHANGED << chatState, user, voiceState, speechState, uploadedFiles,
                    isUploading, uploadReqs, filesReqs, nUploads >>

handleDragLeave ==
    /\ isDragging' = FALSE
    /\ event' = Event("handleDragLeave", << >>)
    /\ UNCHANGED << chatState, user, voiceState, speechState, uploadedFiles,
                    isUploading, uploadReqs, filesReqs, nUploads >>

\* handleFileUpload up to its await: the guard, the flag and the POST /upload.
handleFileUpload(files) ==
    /\ UNCHANGED << uploadedFiles, filesReqs >>
    /\ IF ~AcceptsFiles(files)
       THEN UNCHANGED << isUploading, uploadReqs, nUploads >>
       ELSE /\ nUploads < MaxUploads
            /\ nUploads' = nUploads + 1
            /\ isUploading' = TRUE
            /\ uploadReqs' = uploadReqs \cup { [upload |-> nUploads + 1] }

handleDrop(files) ==
    /\ isDragging' = FALSE
    /\ handleFileUpload(files)
    /\ event' = Event("handleDrop", files)
    /\ UNCHANGED << chatState, user, voiceState, speechState >>

handleFileInputChange(files) ==
    /\ handleFileUpload(files)
    /\ event' = Event("handleFileInputChange", files)
    /\ UNCHANGED << isDragging, chatState, user, voiceState, speechState >>

\* POST /upload answered: the success message, then loadUploadedFiles is
\* called and awaited (its GET /files goes out).
UploadSuccess(q, message) ==
    /\ q \in uploadReqs
    /\ uploadReqs' = uploadReqs \ { q }
    /\ messages' = Append(messages,
           Message("assistant", message \o UploadSuffix, FALSE, NoDuration, 0))
    /\ filesReqs' = filesReqs \cup { [upload |-> q.upload] }
    /\ event' = Event("uploadSuccess", message)
    /\ UNCHANGED << inputMessage, isLoading, isTyping, showSuggestions,
                    chatReqs, nSends, user, voiceState, speechState,
                    uploadedFiles, isDragging, isUploading, nUploads >>

\* POST /upload failed: the catch block, then finally.
UploadFail(q) ==
    /\ q \in uploadReqs
    /\ uploadReqs' = uploadReqs \ { q }
    /\ messages' = Append(messages,
           Message("assistant", UploadFailedText, TRUE, NoDuration, 0))
    /\ isUploading' = FALSE
    /\ event' = Event("uploadFail", << >>)
    /\ UNCHANGED << inputMessage, isLoading, isTyping, showSuggestions,
                    chatReqs, nSends, user, voiceState, speechState,
                    uploadedFiles, isDragging, filesReqs, nUploads >>

\* What follows the return of loadUploadedFiles: nothing for the call of the
\* mount effect (upload 0), the finally block of handleFileUpload otherwise.
AfterLoad(g) ==
    IF g.upload = 0 THEN UNCHANGED isUploading ELSE isUploading' = FALSE

\* GET /files answered: loadUploadedFiles stores the list.
FilesSuccess(g, files) ==
    /\ g \in filesReqs
    /\ filesReqs' = filesReqs \ { g }
    /\ uploadedFiles' = FilesOrEmpty(files)
    /\ AfterLoad(g)
    /\ event' = Event("filesSuccess", files)
    /\ UNCHANGED << chatState, user, voiceState, speechState, isDragging,
                    uploadReqs, nUploads >>

\* GET /files failed: loadUploadedFiles logs the error and returns.
FilesFail(g) ==
    /\ g \in filesReqs
    /\ filesReqs' = filesReqs \ { g }
    /\ AfterLoad(g)
    /\ event' = Event("filesFail", << >>)
    /\ UNCHANGED << chatState, user, voiceState, speechState, uploadedFiles,
                    isDragging, uploadReqs, nUploads >>

---------------------------------------------------------------------------

ChatResponse ==
    \E r \in chatReqs :
        \/ \E reply \in Replies : ChatSuccess(r, reply)
        \/ ChatFail(r)

\* Text input, sending, the backend's answers and the auth context.
NextSend ==
    \/ \E text \in Texts : SetInputMessage(text)
    \/ ClickSend
    \/ \E i \in ClickedSuggestions : ClickSuggestion(i)
    \/ \E key \in Keys, shiftKey \in BOOLEAN : handleKeyDown(key, shiftKey)
    \/ ChatResponse
    \/ \E u \in Usernames : UserChanged(u)

\* The speech synthesis that the answers start.
NextSpeech ==
    \/ ClickSpeak
    \/ \E t \in speakTimers : SpeakTimerFires(t)
    \/ stopSpeaking
    \/ UtteranceStart
    \/ UtteranceEnd

NextChat == NextSend \/ NextSpeech

\* The voice button, the recognizer's callbacks and the textarea they share.
NextVoice ==
    \/ \E text \in Texts : SetInputMessage(text)
    \/ startListening
    \/ stopListening
    \/ \E transcript \in Transcripts : OnResult(transcript)
    \/ OnError
    \/ OnEnd

\* Drag and drop, the file input, the backend's answers to POST /upload and
\* GET /files, and the auth context (all that writes messages here).
NextFiles ==
    \/ handleDragOver
    \/ handleDragLeave
    \/ \E files \in FileLists : handleDrop(files)
    \/ \E files \in FileLists : handleFileInputChange(files)
    \/ \E q \in uploadReqs, message \in UploadMessages :
           UploadSuccess(q, message)
    \/ \E q \in uploadReqs : UploadFail(q)
    \/ \E g \in filesReqs, files \in FilesData : FilesSuccess(g, files)
    \/ \E g \in filesReqs : FilesFail(g)
    \/ \E u \in Usernames : UserChanged(u)

Next == NextChat \/ NextVoice \/ NextFiles

Spec == Init /\ [][Next]_vars

\* NextChat does not read recognition: one of its two values is enough.
InitChat == Init /\ recognition = TRUE

SpecChat == InitChat /\ [][NextChat]_vars

SpecVoice == Init /\ [][NextVoice]_vars

SpecFiles == Init /\ [][NextFiles]_vars

\* The conversation alone, the backend answering or failing every POST /chat.
\* NextSpeech writes none of isLoading, isTyping and chatReqs.
FairSend == InitChat /\ [][NextSend]_vars /\ WF_vars(ChatResponse)

---------------------------------------------------------------------------
(* Properties. *)

\* The text a sendMessage call with argument arg is about: the given text,
\* or the trimmed input when none is given.
SentText(arg) ==
    IF arg # Null /\ arg # << >> THEN arg ELSE Trim(inputMessage)

IsAppend(old, new) ==
    /\ Len(new) = Len(old) + 1
    /\ SubSeq(new, 1, Len(old)) = old

C1_Step ==
    (event'.op = "sendMessage" /\ ~isLoading /\ SentText(event'.arg) # << >>)
    => /\ isLoading' = TRUE
       /\ isTyping' = TRUE
       /\ showSuggestions' = FALSE
       /\ inputMessage' = << >>
       /\ IsAppend(messages, messages')
       /\ Last(messages').role = "user"
       /\ Last(messages').content = SentText(event'.arg)
       /\ chatReqs \subseteq chatReqs'
       /\ Cardinality(chatReqs' \ chatReqs) = 1
       /\ \A r \in chatReqs' \ chatReqs : r.message = SentText(event'.arg)

\* C1: a sendMessage call with a non-empty message while isLoading is false
\* sets isLoading and isTyping, hides the suggestions, clears the input,
\* appends one user message with that text as the last message and issues
\* exactly one POST /chat carrying it.
C1_SendSetsLoading == [][C1_Step]_vars

\* The send button was pressed with " hi " in the textarea and went through.
C1_Witness ==
    /\ event = Event("sendMessage", Null)
    /\ isLoading
    /\ Last(messages).role = "user"
    /\ Last(messages).content = << "h", "i" >>
    /\ \E r \in chatReqs : r.message = << "h", "i" >>

C2_Step ==
    /\ event'.op = "chatSuccess"
       => /\ IsAppend(messages, messages')
          /\ Last(messages').role = "assistant"
          /\ Last(messages').error = FALSE
          /\ \E reply \in Replies :
                 /\ Last(messages').content = reply.content
                 /\ Last(messages').duration = reply.duration
    /\ event'.op = "chatFail"
       => /\ IsAppend(messages, messages')
          /\ Last(messages').role = "assistant"
          /\ Last(messages').error = TRUE
          /\ Last(messages').content = ApologyText
    /\ event'.op \in { "chatSuccess", "chatFail" }
       => /\ chatReqs' \subseteq chatReqs
          /\ Cardinality(chatReqs \ chatReqs') = 1

C2_Preceded ==
    \A i \in DOMAIN messages :
        (messages[i].role = "assistant" /\ messages[i].send # 0)
        => \E j \in 1..(i - 1) :
               /\ messages[j].role = "user"
               /\ messages[j].send = messages[i].send

\* C2: the completion of a POST /chat appends exactly one assistant message
\* (the reply with its duration on success, the apology with error = true on
\* failure), and every such reply in messages comes after the user message
\* of the same send.
C2_ReplyFollowsItsUserMessage == [][C2_Step]_vars /\ []C2_Preceded

\* C3: isLoading equals isTyping, both are true exactly when a POST /chat is
\* in flight, and at most one is in flight.
C3_LoadingIffInFlight ==
    /\ isLoading = isTyping
    /\ isLoading <=> chatReqs # {}
    /\ Cardinality(chatReqs) <= 1

\* A suggestion was clicked while the request of another message was in
\* flight, and was turned down.
C3_Witness ==
    /\ event = Event("sendMessage", suggestions[1])
    /\ isLoading
    /\ Cardinality(chatReqs) = 1
    /\ \A r \in chatReqs : r.message # suggestions[1]

\* C5: under FairSend (the backend answers or fails every POST /chat) an
\* accepted sendMessage is followed by a state with isLoading and isTyping
\* both false.
C5_LoadingEnds == isLoading ~> (~isLoading /\ ~isTyping)

\* The failure path has run and released the input.
C5_Witness ==
    /\ event.op = "chatFail"
    /\ Last(messages).error
    /\ ~isLoading
    /\ ~isTyping

C6_Step ==
    (event'.op = "sendMessage"
        /\ (isLoading \/ SentText(event'.arg) = << >>))
    => UNCHANGED << messages, inputMessage, isLoading, isTyping,
                    showSuggestions, chatReqs >>

\* C6: a sendMessage call while isLoading is true, or with no text given and
\* an empty or whitespace-only input, changes none of messages,
\* inputMessage, isLoading, isTyping, showSuggestions and issues no request.
C6_SendIsNoOp == [][C6_Step]_vars

\* The send handler ran on a non-blank input while a request was in flight.
C6_Witness ==
    /\ event = Event("sendMessage", Null)
    /\ isLoading
    /\ Trim(inputMessage) # << >>

C7_Step ==
    /\ event'.op = "chatSuccess"
       => IF Len(Last(messages').content) < AutoSpeakLimit
          THEN \E t \in speakTimers' :
                   /\ t \notin speakTimers
                   /\ t.text = Last(messages').content
                   /\ speakTimers' = speakTimers \cup { t }
          ELSE speakTimers' = speakTimers
    /\ event'.op = "chatFail" => speakTimers' = speakTimers

\* C7: the completion of a POST /chat schedules a speakResponse of the reply
\* exactly when the request succeeded and the reply is shorter than 200
\* code units; a failed request schedules none.
C7_AutoSpeakIffShort == [][C7_Step]_vars

\* A reply of exactly 200 code units arrived and nothing was scheduled.
C7_Witness ==
    /\ event.op = "chatSuccess"
    /\ Len(Last(messages).content) = AutoSpeakLimit
    /\ speakTimers = {}

C8_Step == event'.op = "recognition.start" => recSession = "idle"

\* C8: recognition.start() is never called while a session it started has
\* not delivered onend.
C8_NoStartWhileActive == [][C8_Step]_vars

C4_Step ==
    /\ event'.op \in { "handleDrop", "handleFileInputChange" }
       => IF event'.arg = Null \/ event'.arg = << >>
          THEN UNCHANGED << messages, uploadedFiles, isUploading, uploadReqs,
                            filesReqs >>
          ELSE /\ uploadReqs \subseteq uploadReqs'
               /\ Cardinality(uploadReqs' \ uploadReqs) = 1
               /\ UNCHANGED << messages, uploadedFiles, filesReqs >>
    /\ event'.op = "handleFileInputChange"
           /\ (event'.arg = Null \/ event'.arg = << >>)
       => UNCHANGED << chatState, user, voiceState, speechState, fileState >>
    /\ event'.op = "uploadSuccess"
       => /\ IsAppend(messages, messages')
          /\ Last(messages').role = "assistant"
          /\ Last(messages').error = FALSE
          /\ Last(messages').content = event'.arg \o UploadSuffix
          /\ Cardinality(uploadReqs \ uploadReqs') = 1
          /\ Cardinality(filesReqs' \ filesReqs) = 1
    /\ event'.op = "uploadFail"
       => /\ IsAppend(messages, messages')
          /\ Last(messages').role = "assistant"
          /\ Last(messages').error = TRUE
          /\ Cardinality(uploadReqs \ uploadReqs') = 1
          /\ UNCHANGED << uploadedFiles, filesReqs >>
    /\ event'.op = "filesSuccess"
       => /\ uploadedFiles' = IF event'.arg = Null THEN << >> ELSE event'.arg
          /\ UNCHANGED messages
    /\ event'.op = "filesFail" => UNCHANGED << messages, uploadedFiles >>

\* C4: a handleFileUpload call with files issues one POST /upload, whose
\* completion appends exactly one assistant message: on success the
\* confirmation built from the backend's message, followed by a GET /files
\* whose list becomes uploadedFiles; on failure a message with error = true,
\* uploadedFiles unchanged.  A call with a missing or empty list changes
\* nothing and issues no request.
C4_UploadAppendsOneMessage == [][C4_Step]_vars

\* An upload succeeded and its reload has stored the backend's list.
C4_Witness ==
    /\ event = Event("filesSuccess", << "a.pdf" >>)
    /\ uploadedFiles = << "a.pdf" >>
    /\ nUploads = 1
    /\ uploadReqs = {}
    /\ filesReqs = {}
    /\ ~isUploading
    /\ Len(messages) = 2
    /\ Last(messages).content = << "O", "K" >> \o UploadSuffix

====
